---- MODULE Spec2Model ----
(***************************************************************************)
(* A model of backend/main.py: the flat-file event/approval store, the     *)
(* events and approvals handlers, and the detection adapter.               *)
(*                                                                         *)
(* Text (str values the code scans or concatenates) is a sequence of       *)
(* one-character strings.  Opaque strings that the code only compares      *)
(* (status, content_hash, url, ...) are TLA+ strings.  Python's None is    *)
(* the value None for opaque strings and NoneText for text.                *)
(*                                                                         *)
(* A request is served by a worker.  A handler is split at its file loads  *)
(* and saves (load_json / save_json), the only points where two requests   *)
(* can observe each other; everything between two file accesses belongs    *)
(* to the step of the preceding access.                                    *)
(***************************************************************************)
EXTENDS Integers, Sequences, FiniteSets, TLC

(***************************************************************************)
(* The keys of the JSON objects, of the requests and of the responses.  A  *)
(* JSON object is unordered: every record of this model lists its keys in  *)
(* the order given here, alphabetical, which is then also the order TLC    *)
(* keeps them in, so that no record is rearranged after it is built.       *)
(***************************************************************************)
KeyOrder ==
    [approved : STRING, body : STRING, bytes : STRING, calls : STRING,
     code : STRING, content_hash : STRING, content_type : STRING,
     created_at : STRING, data : STRING, detail : STRING,
     detection_type : STRING, detections : STRING, domain : STRING,
     error : STRING, file_data : STRING, filename : STRING, guard : STRING,
     guardrails_detections : STRING, has_pii : STRING,
     has_secrets : STRING, hashes : STRING, id : STRING, items : STRING,
     kind : STRING, limit : STRING, masked : STRING, message : STRING,
     mime_type : STRING, ok : STRING, op : STRING, page : STRING,
     pages : STRING, pdf : STRING, pii : STRING, sanitized : STRING,
     secrets : STRING, status : STRING, success : STRING, summary : STRING,
     text : STRING, total : STRING, type : STRING, updated_at : STRING,
     url : STRING, validated_output : STRING]

VARIABLES
    eventsFile,     \* contents of events.json ([] while the file is absent)
    approvalsFile,  \* contents of approvals.json
    pc,             \* per worker: where its handler stands
    req,            \* per worker: the request being (or last) served
    events,         \* per worker: the handler's local `events`
    approvals,      \* per worker: the handler's local `approvals`
    event,          \* per worker: the handler's local `event`
    calls,          \* per worker: detector calls made for the request
    resp,           \* per worker: the last response sent
    approvedLog     \* history: hashes whose update_event(.., "approved") returned

vars == <<eventsFile, approvalsFile, pc, req, events, approvals, event, calls,
          resp, approvedLog>>

(***************************************************************************)
(* Bounds                                                                  *)
(***************************************************************************)
NumWorkers == 4
MaxEvents == 2
MaxListEvents == 3
MaxPage == 2
MaxLimit == 2
MaxCreates == 2

Workers == 1..NumWorkers

(***************************************************************************)
(* Values                                                                  *)
(***************************************************************************)
None == "None"
NoneText == <<"None">>

\* Python truthiness of an Optional[str].
Truthy(s) == s # None /\ s # ""
TruthyText(t) == t # NoneText /\ t # <<>>

\* `a or b` on Optional text.
OrText(a, b) == IF TruthyText(a) THEN a ELSE b

Range(s) == {s[i] : i \in DOMAIN s}

\* `x in lst`
InList(x, lst) == \E i \in DOMAIN lst : lst[i] = x

(***************************************************************************)
(* Guardrails setup (lines 37-52)                                          *)
(***************************************************************************)
EMAIL_ADDRESS == <<"E", "M", "A", "I", "L", "_", "A", "D", "D", "R", "E", "S", "S">>
PHONE_NUMBER == <<"P", "H", "O", "N", "E", "_", "N", "U", "M", "B", "E", "R">>
\* The entities of PII_ENTITIES the model lets the detector report.
PII_ENTITIES == {EMAIL_ADDRESS, PHONE_NUMBER}
SECRETS == <<"S", "E", "C", "R", "E", "T", "S">>
PII == <<"P", "I", "I">>
PiiErrorPrefix == <<"P", "I", "I", " ", "e", "r", "r", "o", "r", ":", " ">>
SecretsErrorPrefix == <<"S", "e", "c", "r", "e", "t", "s", " ", "e", "r", "r", "o", "r", ":", " ">>
\* What SecretsPresent's fix puts in place of a secret.
SecretMask == <<"*", "*", "*", "*", "*", "*", "*", "*">>
\* The message of an error a detector call raises.
DetectorError == <<"b", "o", "o", "m">>

\* The class [A-Z_] of the pattern.
UpperOrUnderscore ==
    {"A", "B", "C", "D", "E", "F", "G", "H", "I", "J", "K", "L", "M", "N",
     "O", "P", "Q", "R", "S", "T", "U", "V", "W", "X", "Y", "Z", "_"}

\* Length of the longest run of [A-Z_] characters of s starting at i.
RECURSIVE RunLen(_, _)
RunLen(s, i) ==
    IF i <= Len(s) /\ s[i] \in UpperOrUnderscore THEN 1 + RunLen(s, i + 1) ELSE 0

\* re.findall(r'<([A-Z_]+)>', s) from position i: the groups of the
\* non-overlapping matches, leftmost first.  The greedy run must be followed
\* by ">"; a shorter run is followed by a class character, so backtracking
\* never finds a match the greedy attempt misses.
RECURSIVE FindAllFrom(_, _)
FindAllFrom(s, i) ==
    IF i > Len(s) THEN <<>>
    ELSE LET k == RunLen(s, i + 1) IN
         IF s[i] = "<" /\ k >= 1 /\ i + k + 1 <= Len(s) /\ s[i + k + 1] = ">"
         THEN <<SubSeq(s, i + 1, i + k)>> \o FindAllFrom(s, i + k + 2)
         ELSE FindAllFrom(s, i + 1)

\* The lists that list(set(S)) can be: the elements of S once each, in an
\* order the hash seed decides.
ListsOfSet(S) ==
    {p \in [1..Cardinality(S) -> S] : \A i, j \in DOMAIN p : i # j => p[i] # p[j]}

\* extract_pii_categories(sanitized): every list the call can return.
extract_pii_categories(sanitized) ==
    IF sanitized = NoneText THEN {<<>>}
    ELSE ListsOfSet(Range(FindAllFrom(sanitized, 1)))

(***************************************************************************)
(* The external detectors.  Guard.validate(text) either raises, or returns *)
(* a result whose summaries report no failure ("pass") or a failure        *)
(* ("fail") together with the fixed output (on_fail="fix"), which may be   *)
(* absent.  Which spans a detector flags is its own business: any          *)
(* non-empty set of the text's space-separated words may be replaced.      *)
(***************************************************************************)
RECURSIVE Split(_)
Split(s) ==
    IF \A i \in DOMAIN s : s[i] # " " THEN <<s>>
    ELSE LET i == CHOOSE j \in DOMAIN s :
                     s[j] = " " /\ \A k \in 1..(j - 1) : s[k] # " "
         IN <<SubSeq(s, 1, i - 1)>> \o Split(SubSeq(s, i + 1, Len(s)))

RECURSIVE Join(_)
Join(ws) ==
    IF Len(ws) = 0 THEN <<>>
    ELSE IF Len(ws) = 1 THEN ws[1]
    ELSE ws[1] \o <<" ">> \o Join(Tail(ws))

Tag(entity) == <<"<">> \o entity \o <<">">>

\* text with the words at positions M replaced by repl[i].
Redact(text, M, repl) ==
    LET ws == Split(text) IN
    Join([i \in DOMAIN ws |-> IF i \in M THEN repl[i] ELSE ws[i]])

WordSets(text) == SUBSET (DOMAIN Split(text)) \ {{}}

Pass(text) == [error |-> <<>>, kind |-> "pass", validated_output |-> text]
Fail(out) == [error |-> <<>>, kind |-> "fail", validated_output |-> out]
Raise(msg) == [error |-> msg, kind |-> "raise", validated_output |-> NoneText]

\* pii_guard.validate(text): every outcome of the call.
pii_guard_validate(text) ==
    {Pass(text), Raise(DetectorError), Fail(NoneText)}
    \cup UNION {{Fail(Redact(text, M, [i \in M |-> Tag(ent[i])])) :
                    ent \in [M -> PII_ENTITIES]} : M \in WordSets(text)}

\* secrets_guard.validate(text): every outcome of the call.
secrets_guard_validate(text) ==
    {Pass(text), Raise(DetectorError), Fail(NoneText)}
    \cup {Fail(Redact(text, M, [i \in M |-> SecretMask])) : M \in WordSets(text)}

(***************************************************************************)
(* validate_text (lines 123-157)                                           *)
(***************************************************************************)
\* Lines 126-129: the locals before the first detector call.
ValidateStart(text) ==
    [calls |-> <<>>, detections |-> <<>>, has_pii |-> FALSE,
     has_secrets |-> FALSE, sanitized |-> text]

\* Mutant: an error of the PII call is swallowed without a trace.
ValidatePiiSilent(st, text, piiOut) ==
    LET called == [st EXCEPT !.calls = Append(@, [guard |-> "pii", text |-> text])] IN
    IF piiOut.kind = "fail" THEN
        LET sanitized == OrText(piiOut.validated_output, st.sanitized) IN
        {[called EXCEPT !.has_pii = TRUE,
                        !.sanitized = sanitized,
                        !.detections = @ \o (IF categories # <<>> THEN categories
                                             ELSE <<PII>>)] :
            categories \in extract_pii_categories(sanitized)}
    ELSE {called}

\* Lines 131-140: the PII try block, given the outcome of
\* pii_guard.validate(req.text).  A set: one element per order of the
\* extracted categories.
ValidatePii(st, text, piiOut) ==
    LET called == [st EXCEPT !.calls = Append(@, [guard |-> "pii", text |-> text])] IN
    IF piiOut.kind = "raise" THEN
        {[called EXCEPT !.has_pii = TRUE,
                        !.detections = Append(@, PiiErrorPrefix \o piiOut.error)]}
    ELSE IF piiOut.kind = "fail" THEN
        LET sanitized == OrText(piiOut.validated_output, st.sanitized) IN
        {[called EXCEPT !.has_pii = TRUE,
                        !.sanitized = sanitized,
                        !.detections = @ \o (IF categories # <<>> THEN categories
                                             ELSE <<PII>>)] :
            categories \in extract_pii_categories(sanitized)}
    ELSE {called}

\* Mutant: the output of the secrets detector is not taken over.
ValidateSecretsUnmasked(st, secOut) ==
    LET called == [st EXCEPT !.calls =
                       Append(@, [guard |-> "secrets", text |-> st.sanitized])] IN
    IF secOut.kind = "raise" THEN
        [called EXCEPT !.has_secrets = TRUE,
                       !.detections = Append(@, SecretsErrorPrefix \o secOut.error)]
    ELSE IF secOut.kind = "fail" THEN
        [called EXCEPT !.has_secrets = TRUE,
                       !.detections = Append(@, SECRETS)]
    ELSE called

\* Lines 142-150: the secrets try block, given the outcome of
\* secrets_guard.validate(sanitized).
ValidateSecrets(st, secOut) ==
    LET called == [st EXCEPT !.calls =
                       Append(@, [guard |-> "secrets", text |-> st.sanitized])] IN
    IF secOut.kind = "raise" THEN
        [called EXCEPT !.has_secrets = TRUE,
                       !.detections = Append(@, SecretsErrorPrefix \o secOut.error)]
    ELSE IF secOut.kind = "fail" THEN
        [called EXCEPT !.has_secrets = TRUE,
                       !.sanitized = OrText(secOut.validated_output, st.sanitized),
                       !.detections = Append(@, SECRETS)]
    ELSE called

\* Lines 152-157.
ValidateResponse(st) ==
    [body |-> [detections |-> st.detections, has_pii |-> st.has_pii,
               has_secrets |-> st.has_secrets, sanitized |-> st.sanitized],
     code |-> 200]

(***************************************************************************)
(* Data storage (lines 59-69)                                              *)
(***************************************************************************)
\* load_json(file): the parsed document, [] while the file does not exist.
\* json.dumps/json.loads of lists of dicts of int, str, None and lists of
\* str return an equal value, so a loaded document is the saved one.
load_json(file) == file

\* save_json(file, data): the document the file holds after the write,
\* whatever it held before.
save_json(file, data) == data

(***************************************************************************)
(* datetime.now().isoformat() (lines 237, 250)                             *)
(*                                                                         *)
(* A clock reading is <<seconds, microseconds>>.  isoformat() prints the   *)
(* seconds field, and the fraction only when it is not zero, so stamps     *)
(* differ in length.  The model prints one digit for each.                 *)
(***************************************************************************)
Digit(n) ==
    CASE n = 0 -> "0" [] n = 1 -> "1" [] n = 2 -> "2" [] n = 3 -> "3"
      [] n = 4 -> "4" [] n = 5 -> "5" [] n = 6 -> "6" [] n = 7 -> "7"
      [] n = 8 -> "8" [] n = 9 -> "9"

isoformat(t) == <<Digit(t[1])>> \o (IF t[2] = 0 THEN <<>> ELSE <<".", Digit(t[2])>>)

\* Code point of a character of a stamp.
Ord(c) ==
    CASE c = "." -> 46 [] c = "0" -> 48 [] c = "1" -> 49 [] c = "2" -> 50
      [] c = "3" -> 51 [] c = "4" -> 52 [] c = "5" -> 53 [] c = "6" -> 54
      [] c = "7" -> 55 [] c = "8" -> 56 [] c = "9" -> 57

\* Python's a < b on str: lexicographic by code point.
RECURSIVE StrLess(_, _)
StrLess(a, b) ==
    IF b = <<>> THEN FALSE
    ELSE IF a = <<>> THEN TRUE
    ELSE IF Head(a) # Head(b) THEN Ord(Head(a)) < Ord(Head(b))
    ELSE StrLess(Tail(a), Tail(b))

(***************************************************************************)
(* list_events (lines 188-196)                                             *)
(***************************************************************************)
\* x.get("created_at", "")
CreatedAtKey(e) == IF "created_at" \in DOMAIN e THEN e.created_at ELSE <<>>

\* [e for e in events if e["status"] == status]
RECURSIVE FilterStatus(_, _)
FilterStatus(evs, status) ==
    IF evs = <<>> THEN <<>>
    ELSE (IF Head(evs).status = status THEN <<Head(evs)>> ELSE <<>>)
         \o FilterStatus(Tail(evs), status)

\* x goes behind every element whose key is not below its own: elements with
\* equal keys keep the order they came in (sorted(..., reverse=True) is
\* stable).
InsertDesc(sorted, x) ==
    LET n == Cardinality({i \in DOMAIN sorted :
                             ~StrLess(CreatedAtKey(sorted[i]), CreatedAtKey(x))})
    IN SubSeq(sorted, 1, n) \o <<x>> \o SubSeq(sorted, n + 1, Len(sorted))

\* Mutant: the list is returned in stored order, the sort forgotten.
NotSorted(evs) == evs

\* sorted(events, key=lambda x: x.get("created_at", ""), reverse=True)
RECURSIVE SortedDesc(_)
SortedDesc(evs) ==
    IF evs = <<>> THEN <<>>
    ELSE InsertDesc(SortedDesc(SubSeq(evs, 1, Len(evs) - 1)), evs[Len(evs)])

\* Python's bound of a slice: a negative index counts from the end, and
\* both ends are clamped to the list.
SliceBound(i, n) ==
    LET j == IF i < 0 THEN i + n ELSE i IN
    IF j < 0 THEN 0 ELSE IF j > n THEN n ELSE j

\* lst[start:stop]
PySlice(lst, start, stop) ==
    SubSeq(lst, SliceBound(start, Len(lst)) + 1, SliceBound(stop, Len(lst)))

\* The handlers' locals outside a request.
NoEvent == [id |-> 0]
NoReq == [op |-> "none"]
NoResp == [code |-> 0]

Ok(body) == [body |-> body, code |-> 200]
\* HTTPException(404, "Event not found")
NotFound == [code |-> 404, detail |-> "Event not found"]

list_events(file, page, limit, status) ==
    LET loaded == load_json(file)
        filtered == IF Truthy(status) THEN FilterStatus(loaded, status) ELSE loaded
        ordered == SortedDesc(filtered)
        start == (page - 1) * limit
    IN Ok([items |-> PySlice(ordered, start, start + limit),
           page |-> page, total |-> Len(ordered)])

(***************************************************************************)
(* get_event (lines 199-204)                                               *)
(***************************************************************************)
HasId(evs, id) == \E i \in DOMAIN evs : evs[i].id = id

\* The index the scan `for event in events: if event["id"] == event_id`
\* stops at.
FirstIndex(evs, id) ==
    CHOOSE i \in DOMAIN evs : evs[i].id = id /\ \A j \in 1..(i - 1) : evs[j].id # id

\* Mutant: an id no event has is answered with an empty object.
get_event_or_empty(file, id) ==
    LET loaded == load_json(file) IN
    IF HasId(loaded, id) THEN Ok(loaded[FirstIndex(loaded, id)]) ELSE Ok(NoEvent)

get_event(file, id) ==
    LET loaded == load_json(file) IN
    IF HasId(loaded, id) THEN Ok(loaded[FirstIndex(loaded, id)]) ELSE NotFound

(***************************************************************************)
(* create_event (lines 207-241)                                            *)
(***************************************************************************)
\* A detector the handler did not call.
NoCall == [error |-> <<>>, kind |-> "none", validated_output |-> NoneText]

\* The outcomes of the two calls create_event can make on `message`.
DetectorRuns(message) ==
    IF TruthyText(message)
    THEN pii_guard_validate(message) \X secrets_guard_validate(message)
    ELSE {<<NoCall, NoCall>>}

\* Mutant: the detectors are called whether or not there is a message.
CreateGuardrailsAlways(message, piiOut, secOut) ==
    LET piiCall == [guard |-> "pii", text |-> message]
        secCall == [guard |-> "secrets", text |-> message]
    IN
    IF piiOut.kind = "raise" THEN {[calls |-> <<piiCall>>, detections |-> <<>>]}
    ELSE
        LET found ==
                IF piiOut.kind = "fail"
                THEN {IF categories # <<>> THEN categories ELSE <<PII>> :
                        categories \in
                            extract_pii_categories(OrText(piiOut.validated_output, <<>>))}
                ELSE {<<>>}
        IN {[calls |-> <<piiCall, secCall>>,
             detections |-> IF secOut.kind = "fail" THEN Append(d, SECRETS) ELSE d] : d \in found}

\* Mutant: a failure without categories is not reported as "PII".
CreateGuardrailsNoGeneric(message, piiOut, secOut) ==
    LET piiCall == [guard |-> "pii", text |-> message]
        secCall == [guard |-> "secrets", text |-> message]
    IN
    IF ~TruthyText(message) THEN {[calls |-> <<>>, detections |-> <<>>]}
    ELSE IF piiOut.kind = "raise" THEN {[calls |-> <<piiCall>>, detections |-> <<>>]}
    ELSE
        LET found ==
                IF piiOut.kind = "fail"
                THEN extract_pii_categories(OrText(piiOut.validated_output, <<>>))
                ELSE {<<>>}
        IN {[calls |-> <<piiCall, secCall>>,
             detections |-> IF secOut.kind = "fail" THEN Append(d, SECRETS) ELSE d] : d \in found}

\* Mutant: each call has a try block of its own, as in validate_text.
CreateGuardrailsSeparateTries(message, piiOut, secOut) ==
    LET piiCall == [guard |-> "pii", text |-> message]
        secCall == [guard |-> "secrets", text |-> message]
        found ==
            IF piiOut.kind = "fail"
            THEN {IF categories # <<>> THEN categories ELSE <<PII>> :
                    categories \in
                        extract_pii_categories(OrText(piiOut.validated_output, <<>>))}
            ELSE {<<>>}
    IN
    IF ~TruthyText(message) THEN {[calls |-> <<>>, detections |-> <<>>]}
    ELSE {[calls |-> <<piiCall, secCall>>,
           detections |-> IF secOut.kind = "fail" THEN Append(d, SECRETS) ELSE d] : d \in found}

\* Lines 211-223: guardrails_detections and the detector calls made, given
\* the outcomes of the calls.  One try block holds both calls: an error in
\* the first skips the second, and what was collected before an error stays.
\* A set: one element per order of the extracted categories.
CreateGuardrails(message, piiOut, secOut) ==
    LET piiCall == [guard |-> "pii", text |-> message]
        secCall == [guard |-> "secrets", text |-> message]
    IN
    IF ~TruthyText(message) THEN {[calls |-> <<>>, detections |-> <<>>]}
    ELSE IF piiOut.kind = "raise" THEN {[calls |-> <<piiCall>>, detections |-> <<>>]}
    ELSE
        LET found ==
                IF piiOut.kind = "fail"
                THEN {IF categories # <<>> THEN categories ELSE <<PII>> :
                        categories \in
                            extract_pii_categories(OrText(piiOut.validated_output, <<>>))}
                ELSE {<<>>}
        IN {[calls |-> <<piiCall, secCall>>,
             detections |-> IF secOut.kind = "fail" THEN Append(d, SECRETS) ELSE d] : d \in found}

\* Mutant: the id is the count before the append, without the + 1.
NextIdOffByOne(evs) == Len(evs)

\* Line 226.
NextId(evs) == Len(evs) + 1

\* Mutant: a new event is stamped with updated_at as well.
NewEventStamped(evs, data, guardrails_detections, now) ==
    [content_hash |-> data.content_hash,
     content_type |-> data.content_type,
     created_at |-> isoformat(now),
     detection_type |-> data.detection_type,
     detections |-> data.detections,
     domain |-> data.domain,
     guardrails_detections |-> guardrails_detections,
     id |-> NextId(evs),
     message |-> data.message,
     status |-> "pending",
     summary |-> data.summary,
     updated_at |-> isoformat(now),
     url |-> data.url]

\* Lines 225-238.
NewEvent(evs, data, guardrails_detections, now) ==
    [content_hash |-> data.content_hash,
     content_type |-> data.content_type,
     created_at |-> isoformat(now),
     detection_type |-> data.detection_type,
     detections |-> data.detections,
     domain |-> data.domain,
     guardrails_detections |-> guardrails_detections,
     id |-> NextId(evs),
     message |-> data.message,
     status |-> "pending",
     summary |-> data.summary,
     url |-> data.url]

\* Lines 209-239: load the collection, run the detectors, build the event
\* and append it to the local list.
CreateLoad(w, data, piiOut, secOut, now) ==
    /\ pc[w] = "idle"
    /\ \E g \in CreateGuardrails(data.message, piiOut, secOut) :
         LET loaded == load_json(eventsFile)
             ev == NewEvent(loaded, data, g.detections, now)
         IN /\ events' = [events EXCEPT ![w] = Append(loaded, ev)]
            /\ event' = [event EXCEPT ![w] = ev]
            /\ calls' = [calls EXCEPT ![w] = g.calls]
    /\ req' = [req EXCEPT ![w] = [data |-> data, op |-> "create_event",
                                  pii |-> piiOut, secrets |-> secOut]]
    /\ pc' = [pc EXCEPT ![w] = "create_save"]
    /\ UNCHANGED <<eventsFile, approvalsFile, approvals, resp, approvedLog>>

\* Mutant: the save adds the new event to what the file holds at that time.
CreateSaveMerging(w) ==
    /\ pc[w] = "create_save"
    /\ eventsFile' = Append(eventsFile, event[w])
    /\ resp' = [resp EXCEPT ![w] = Ok(event[w])]
    /\ pc' = [pc EXCEPT ![w] = "idle"]
    /\ events' = [events EXCEPT ![w] = <<>>]
    /\ event' = [event EXCEPT ![w] = NoEvent]
    /\ UNCHANGED <<approvalsFile, req, approvals, calls, approvedLog>>

\* Lines 240-241: write the whole local list and return the event.
CreateSave(w) ==
    /\ pc[w] = "create_save"
    /\ eventsFile' = save_json(eventsFile, events[w])
    /\ resp' = [resp EXCEPT ![w] = Ok(event[w])]
    /\ pc' = [pc EXCEPT ![w] = "idle"]
    /\ events' = [events EXCEPT ![w] = <<>>]
    /\ event' = [event EXCEPT ![w] = NoEvent]
    /\ UNCHANGED <<approvalsFile, req, approvals, calls, approvedLog>>

(***************************************************************************)
(* update_event (lines 244-260)                                            *)
(***************************************************************************)
\* Mutant: a decision once taken stands, only a pending event changes
\* status.
StampedTerminal(e, status, now) ==
    ("updated_at" :> isoformat(now))
        @@ [e EXCEPT !.status = IF @ = "pending" THEN status ELSE @]

\* Lines 249-250: event["status"] = ...; event["updated_at"] = ...
Stamped(e, status, now) ==
    ("updated_at" :> isoformat(now)) @@ [e EXCEPT !.status = status]

\* Mutant: any update of an event with a hash counts as an approval.
NeedsApprovalAnyStatus(status, e) == Truthy(e.content_hash)

\* Mutant: the status is compared with a misspelt word.
NeedsApprovalTypo(status, e) == status = "approve" /\ Truthy(e.content_hash)

\* Line 252: data.status == "approved" and event.get("content_hash")
NeedsApproval(status, e) == status = "approved" /\ Truthy(e.content_hash)

\* Mutant: the hash is appended without looking for it in the list.
AlwaysAppend(hash, approved) == TRUE

\* Line 254.
NotYetApproved(hash, approved) == ~InList(hash, approved)

\* Mutant: the list is replaced by the new hash instead of extended.
OnlyThisApproval(approved, hash) == <<hash>>

\* Line 255.
WithApproval(approved, hash) == Append(approved, hash)

\* Lines 246-252: load the collection and scan it; an id no event has ends
\* the request with 404, a found event is changed in the local list.
UpdateLoad(w, id, status, now) ==
    /\ pc[w] = "idle"
    /\ req' = [req EXCEPT ![w] = [id |-> id, op |-> "update_event", status |-> status]]
    /\ calls' = [calls EXCEPT ![w] = <<>>]
    /\ LET loaded == load_json(eventsFile) IN
       IF HasId(loaded, id)
       THEN LET i == FirstIndex(loaded, id)
                e == Stamped(loaded[i], status, now)
            IN /\ events' = [events EXCEPT ![w] = [loaded EXCEPT ![i] = e]]
               /\ event' = [event EXCEPT ![w] = e]
               /\ pc' = [pc EXCEPT ![w] = IF NeedsApproval(status, e)
                                          THEN "update_load_approvals"
                                          ELSE "update_save_events"]
               /\ UNCHANGED resp
       ELSE /\ resp' = [resp EXCEPT ![w] = NotFound]
            /\ UNCHANGED <<pc, events, event>>
    /\ UNCHANGED <<eventsFile, approvalsFile, approvals, approvedLog>>

\* Lines 253-255: load the approvals and append the hash when it is absent.
UpdateLoadApprovals(w) ==
    /\ pc[w] = "update_load_approvals"
    /\ LET loaded == load_json(approvalsFile) IN
       IF NotYetApproved(event[w].content_hash, loaded)
       THEN /\ approvals' = [approvals EXCEPT ![w] =
                                WithApproval(loaded, event[w].content_hash)]
            /\ pc' = [pc EXCEPT ![w] = "update_save_approvals"]
       ELSE /\ pc' = [pc EXCEPT ![w] = "update_save_events"]
            /\ UNCHANGED approvals
    /\ UNCHANGED <<eventsFile, approvalsFile, req, events, event, calls, resp,
                   approvedLog>>

\* Mutant: the save adds the hash to what the file holds at that time.
UpdateSaveApprovalsMerging(w) ==
    /\ pc[w] = "update_save_approvals"
    /\ approvalsFile' = IF InList(event[w].content_hash, approvalsFile)
                        THEN approvalsFile
                        ELSE Append(approvalsFile, event[w].content_hash)
    /\ approvals' = [approvals EXCEPT ![w] = <<>>]
    /\ pc' = [pc EXCEPT ![w] = "update_save_events"]
    /\ UNCHANGED <<eventsFile, req, events, event, calls, resp, approvedLog>>

\* Mutant: the approvals and the events go out in one write.
UpdateSaveBoth(w) ==
    /\ pc[w] = "update_save_approvals"
    /\ approvalsFile' = save_json(approvalsFile, approvals[w])
    /\ eventsFile' = save_json(eventsFile, events[w])
    /\ approvals' = [approvals EXCEPT ![w] = <<>>]
    /\ pc' = [pc EXCEPT ![w] = "update_save_events"]
    /\ UNCHANGED <<req, events, event, calls, resp, approvedLog>>

\* Line 256.
UpdateSaveApprovals(w) ==
    /\ pc[w] = "update_save_approvals"
    /\ approvalsFile' = save_json(approvalsFile, approvals[w])
    /\ approvals' = [approvals EXCEPT ![w] = <<>>]
    /\ pc' = [pc EXCEPT ![w] = "update_save_events"]
    /\ UNCHANGED <<eventsFile, req, events, event, calls, resp, approvedLog>>

\* Lines 258-259: write the whole local list and return the event.
UpdateSaveEvents(w) ==
    /\ pc[w] = "update_save_events"
    /\ eventsFile' = save_json(eventsFile, events[w])
    /\ resp' = [resp EXCEPT ![w] = Ok(event[w])]
    /\ approvedLog' = IF req[w].status = "approved" /\ Truthy(event[w].content_hash)
                      THEN approvedLog \cup {event[w].content_hash}
                      ELSE approvedLog
    /\ pc' = [pc EXCEPT ![w] = "idle"]
    /\ events' = [events EXCEPT ![w] = <<>>]
    /\ event' = [event EXCEPT ![w] = NoEvent]
    /\ UNCHANGED <<approvalsFile, req, approvals, calls>>

(***************************************************************************)
(* Approvals API (lines 267-274)                                           *)
(***************************************************************************)
list_approvals(file) == Ok([hashes |-> load_json(file)])

check_approval(file, content_hash) ==
    Ok([approved |-> InList(content_hash, load_json(file))])

(***************************************************************************)
(* The handlers that make no write: one step each.                         *)
(***************************************************************************)
Answer(w, request, response, detectorCalls) ==
    /\ pc[w] = "idle"
    /\ req' = [req EXCEPT ![w] = request]
    /\ resp' = [resp EXCEPT ![w] = response]
    /\ calls' = [calls EXCEPT ![w] = detectorCalls]
    /\ UNCHANGED <<eventsFile, approvalsFile, pc, events, approvals, event,
                   approvedLog>>

GetEvent(w, id) ==
    Answer(w, [id |-> id, op |-> "get_event"], get_event(eventsFile, id), <<>>)

ListEvents(w, page, limit, status) ==
    Answer(w, [limit |-> limit, op |-> "list_events", page |-> page,
               status |-> status],
           list_events(eventsFile, page, limit, status), <<>>)

ListApprovals(w) ==
    Answer(w, [op |-> "list_approvals"], list_approvals(approvalsFile), <<>>)

CheckApproval(w, content_hash) ==
    Answer(w, [content_hash |-> content_hash, op |-> "check_approval"],
           check_approval(approvalsFile, content_hash), <<>>)

\* validate_text with the outcomes of its two detector calls: the second
\* call's outcome is one the secrets detector has for the text it is given.
ValidateText(w, text, piiOut) ==
    \E st1 \in ValidatePii(ValidateStart(text), text, piiOut) :
      \E secOut \in secrets_guard_validate(st1.sanitized) :
        LET st2 == ValidateSecrets(st1, secOut) IN
        Answer(w, [op |-> "validate_text", pii |-> piiOut, secrets |-> secOut,
                   text |-> text],
               ValidateResponse(st2), st2.calls)

(***************************************************************************)
(* Initial state: both files absent, no request served yet.                *)
(***************************************************************************)
Init ==
    /\ eventsFile = <<>>
    /\ approvalsFile = <<>>
    /\ pc = [w \in Workers |-> "idle"]
    /\ req = [w \in Workers |-> NoReq]
    /\ events = [w \in Workers |-> <<>>]
    /\ approvals = [w \in Workers |-> <<>>]
    /\ event = [w \in Workers |-> NoEvent]
    /\ calls = [w \in Workers |-> <<>>]
    /\ resp = [w \in Workers |-> NoResp]
    /\ approvedLog = {}

(***************************************************************************)
(* Inputs                                                                  *)
(***************************************************************************)
Hashes == {"abc", "def"}
OptionalHashes == {None, ""} \cup Hashes
Statuses == {"pending", "approved", "rejected"}
Midnight == <<0, 0>>

\* An EventCreate body; the fields the handler only copies are fixed.
Payload(content_hash, message) ==
    [content_hash |-> content_hash, content_type |-> "prompt",
     detection_type |-> "pii", detections |-> <<[masked |-> "a***@b.c", type |-> "EMAIL"]>>, domain |-> "chat.example",
     message |-> message,
     summary |-> "1 finding", url |-> "https://chat.example/c/1"]

(***************************************************************************)
(* Spec: one request at a time (no concurrent writers), events without a   *)
(* message.                                                                *)
(***************************************************************************)
Serial(w) == \A v \in Workers : v # w => pc[v] = "idle"

StoreNext(w) ==
    \/ \E h \in OptionalHashes :
         /\ Len(eventsFile) < MaxEvents
         /\ CreateLoad(w, Payload(h, NoneText), NoCall, NoCall, Midnight)
    \/ CreateSave(w)
    \/ \E id \in 0..(MaxEvents + 1), s \in Statuses : UpdateLoad(w, id, s, Midnight)
    \/ UpdateLoadApprovals(w)
    \/ UpdateSaveApprovals(w)
    \/ UpdateSaveEvents(w)
    \/ \E id \in 0..(MaxEvents + 1) : GetEvent(w, id)
    \/ ListApprovals(w)
    \/ \E h \in Hashes : CheckApproval(w, h)

Next == StoreNext(1)

Spec == Init /\ [][Next]_vars

(***************************************************************************)
(* Claims checked under Spec                                               *)
(***************************************************************************)
Idle(w) == pc[w] = "idle"

\* Worker w ends a request in this step.
Returns(w) == pc'[w] = "idle" /\ <<req'[w], resp'[w]>> # <<req[w], resp[w]>>

\* C1: without concurrent writers, the ids of the stored events are pairwise
\* distinct and increase along the collection; the id create_event assigns
\* is the number of stored events plus one and exceeds every stored id, and
\* the event it returns carries that id.
C1_IdsUniqueIncreasing ==
    /\ \A i, j \in DOMAIN eventsFile :
          i < j => eventsFile[i].id < eventsFile[j].id
    /\ \A w \in Workers :
          pc[w] = "create_save" =>
             /\ event[w].id = Len(eventsFile) + 1
             /\ \A i \in DOMAIN eventsFile : eventsFile[i].id < event[w].id
    /\ \A w \in Workers :
          (Idle(w) /\ req[w].op = "create_event") =>
             /\ resp[w].code = 200
             /\ resp[w].body.id = Len(eventsFile)
             /\ \A i \in 1..(Len(eventsFile) - 1) :
                   eventsFile[i].id < resp[w].body.id

\* C1 witness: a second event was created after an update of the first.
C1_Witness ==
    /\ Len(eventsFile) = 2
    /\ "updated_at" \in DOMAIN eventsFile[1]
    /\ Idle(1) /\ req[1].op = "create_event"
    /\ resp[1].body.id = 2

\* C2: once update_event(id, "approved") has returned for an event with a
\* non-empty content_hash h, check_approval(h) answers approved = true and
\* list_approvals holds h, whatever was created or updated since.
C2_ApprovedStaysChecked ==
    /\ \A h \in approvedLog :
          /\ check_approval(approvalsFile, h).body.approved
          /\ InList(h, list_approvals(approvalsFile).body.hashes)
    /\ \A w \in Workers :
          (Idle(w) /\ req[w].op = "check_approval"
                   /\ req[w].content_hash \in approvedLog) =>
             resp[w].body.approved
    /\ \A w \in Workers :
          (Idle(w) /\ req[w].op = "list_approvals") =>
             \A h \in approvedLog : InList(h, resp[w].body.hashes)

\* C2 witness: check_approval answered true for a hash whose event has been
\* rejected since it was approved, with another event created in between.
C2_Witness ==
    /\ Idle(1) /\ req[1].op = "check_approval"
    /\ req[1].content_hash \in approvedLog
    /\ resp[1].body.approved
    /\ Len(eventsFile) = 2
    /\ \E i \in DOMAIN eventsFile :
          /\ eventsFile[i].content_hash = req[1].content_hash
          /\ eventsFile[i].status = "rejected"

\* C4: without concurrent writers a hash never leaves the approval set.
C4_ApprovalsOnlyGrow ==
    [][\A h \in Hashes : InList(h, approvalsFile) => InList(h, approvalsFile')]_vars

\* C4 witness: the hash of an event set to "rejected", and the hash of an
\* event set back to "pending", are both in the approval set.
C4_Witness ==
    /\ Len(eventsFile) = 2
    /\ eventsFile[1].status = "rejected" /\ eventsFile[2].status = "pending"
    /\ "updated_at" \in DOMAIN eventsFile[2]
    /\ eventsFile[1].content_hash # eventsFile[2].content_hash
    /\ InList(eventsFile[1].content_hash, approvalsFile)
    /\ InList(eventsFile[2].content_hash, approvalsFile)

\* C5: get_event and update_event on an id no stored event has answer 404
\* "Event not found" and leave both files as they were; get_event on a
\* stored id answers the stored event with that id.
C5_NotFound ==
    [][\A w \in Workers :
         (Idle(w) /\ Returns(w) /\ req'[w].op \in {"get_event", "update_event"}) =>
            IF HasId(eventsFile, req'[w].id)
            THEN req'[w].op = "get_event" =>
                    /\ resp'[w].code = 200
                    /\ resp'[w].body.id = req'[w].id
                    /\ InList(resp'[w].body, eventsFile)
            ELSE /\ resp'[w] = NotFound
                 /\ eventsFile' = eventsFile
                 /\ approvalsFile' = approvalsFile]_vars

\* C5 witness: update_event answered 404 on a non-empty store.
C5_Witness ==
    /\ Idle(1) /\ req[1].op = "update_event"
    /\ resp[1] = NotFound
    /\ eventsFile # <<>> /\ ~HasId(eventsFile, req[1].id)

(***************************************************************************)
(* SpecCreate: one request at a time, events with and without a message,   *)
(* every outcome of the detector calls.                                    *)
(***************************************************************************)
TextEmail == <<"a", "@", "b">>
TextTagAndEmail == Tag(SECRETS) \o <<" ">> \o TextEmail
CreateMessages == {NoneText, <<>>, TextEmail, TextTagAndEmail}

CreateNext(w) ==
    \/ \E msg \in CreateMessages : \E run \in DetectorRuns(msg) :
         /\ Len(eventsFile) < MaxCreates
         /\ CreateLoad(w, Payload(None, msg), run[1], run[2], Midnight)
    \/ CreateSave(w)

SpecCreate == Init /\ [][CreateNext(1)]_vars

\* C6: create_event with a payload that has no message calls no detector,
\* and the event it returns has guardrails_detections = [] and status
\* "pending" and is the one the save appended to the stored collection.
C6_NoMessageNoDetections ==
    [][\A w \in Workers :
         (pc[w] = "create_save" /\ pc'[w] = "idle"
            /\ req[w].data.message = NoneText) =>
            /\ resp'[w].code = 200
            /\ resp'[w].body.guardrails_detections = <<>>
            /\ resp'[w].body.status = "pending"
            /\ calls'[w] = <<>>
            /\ eventsFile' = Append(eventsFile, resp'[w].body)]_vars

\* C6 witness: an event without a message was created after one whose
\* message raised detections.
C6_Witness ==
    /\ Idle(1) /\ req[1].op = "create_event" /\ req[1].data.message = NoneText
    /\ Len(eventsFile) = 2
    /\ eventsFile[1].guardrails_detections # <<>>
    /\ eventsFile[2] = resp[1].body
    /\ eventsFile[2].guardrails_detections = <<>>

(***************************************************************************)
(* SpecList: one request at a time; events created at clock readings in    *)
(* any order (the wall clock may repeat or step back), listed by page.     *)
(***************************************************************************)
ListTimes == {<<0, 0>>, <<0, 5>>, <<1, 0>>}
ListFilters == {None, "", "pending", "approved"}

ListNext(w) ==
    \/ \E t \in ListTimes :
         /\ Len(eventsFile) < MaxListEvents
         /\ CreateLoad(w, Payload(None, NoneText), NoCall, NoCall, t)
    \/ CreateSave(w)
    \/ \E id \in 1..MaxListEvents : UpdateLoad(w, id, "approved", Midnight)
    \/ UpdateSaveEvents(w)
    \/ \E page \in 1..MaxPage, limit \in 1..MaxLimit, status \in ListFilters :
         ListEvents(w, page, limit, status)

SpecList == Init /\ [][ListNext(1)]_vars

\* The clock reading a stamp was printed from.
ReadingOf(stamp) ==
    <<Ord(stamp[1]) - 48, IF Len(stamp) = 1 THEN 0 ELSE Ord(stamp[3]) - 48>>

Later(t, u) == t[1] > u[1] \/ (t[1] = u[1] /\ t[2] > u[2])

DistinctCreatedAt(evs) ==
    \A i, j \in DOMAIN evs : i # j => evs[i].created_at # evs[j].created_at

Min(a, b) == IF a < b THEN a ELSE b

\* What C7 promises of the answer `body` to list_events(page, limit, status)
\* on the stored collection evs: the events matching the filter, the k-th
\* item being the one with start + k - 1 matching events created later.
ListedRight(evs, page, limit, status, body) ==
    LET matching == {i \in DOMAIN evs : status = None \/ evs[i].status = status}
        newer(i) == {j \in matching : Later(ReadingOf(evs[j].created_at),
                                            ReadingOf(evs[i].created_at))}
        start == (page - 1) * limit
        rest == Cardinality(matching) - start
    IN /\ body.total = Cardinality(matching)
       /\ body.page = page
       /\ Len(body.items) = (IF rest < 0 THEN 0 ELSE Min(limit, rest))
       /\ \A k \in DOMAIN body.items :
             \E i \in matching : /\ body.items[k] = evs[i]
                                 /\ Cardinality(newer(i)) = start + k - 1

\* C7: on a collection with distinct created_at values, list_events with
\* page >= 1, limit >= 1 and no filter or a non-empty status filter returns
\* the number of matching events as total, the requested page, and as items
\* the slice [(page-1)*limit, (page-1)*limit+limit) of the matching events
\* from the most recently created to the oldest; it writes no file.
C7_ListEventsPage ==
    [][\A w \in Workers :
         (Idle(w) /\ Returns(w) /\ req'[w].op = "list_events") =>
            /\ eventsFile' = eventsFile
            /\ approvalsFile' = approvalsFile
            /\ (/\ DistinctCreatedAt(eventsFile)
                /\ req'[w].page >= 1 /\ req'[w].limit >= 1
                /\ req'[w].status # "") =>
                   /\ resp'[w].code = 200
                   /\ ListedRight(eventsFile, req'[w].page, req'[w].limit,
                                  req'[w].status, resp'[w].body)]_vars

\* C7 witness: three events whose creation order is not their created_at
\* order, listed with limit = 2, page = 1: the two most recent, total = 3.
C7_Witness ==
    /\ Idle(1) /\ req[1].op = "list_events"
    /\ req[1].page = 1 /\ req[1].limit = 2 /\ req[1].status = None
    /\ Len(eventsFile) = 3 /\ DistinctCreatedAt(eventsFile)
    /\ eventsFile[1].created_at = isoformat(<<0, 5>>)
    /\ eventsFile[2].created_at = isoformat(<<1, 0>>)
    /\ eventsFile[3].created_at = isoformat(<<0, 0>>)
    /\ resp[1].body.total = 3
    /\ resp[1].body.items = <<eventsFile[2], eventsFile[1]>>

(***************************************************************************)
(* SpecValidate: validate_text on texts with one or two words, every       *)
(* outcome of the two detector calls.                                      *)
(***************************************************************************)
TextPlain == <<"h", "i">>
TextEmailTwice == TextEmail \o <<" ">> \o TextEmail
ValidateTexts == {TextPlain, TextEmail, TextEmailTwice, TextTagAndEmail}

ValidateNext(w) ==
    \E text \in ValidateTexts : \E piiOut \in pii_guard_validate(text) :
        ValidateText(w, text, piiOut)

SpecValidate == Init /\ [][ValidateNext(1)]_vars

\* part occurs in whole.
Contains(whole, part) ==
    \E i \in 1..(Len(whole) - Len(part) + 1) :
        SubSeq(whole, i, i + Len(part) - 1) = part

Validated(w) == Idle(w) /\ req[w].op = "validate_text"

\* C9: whatever the two detector calls do, validate_text answers with a
\* complete response; a raising PII call gives has_pii and a detections
\* entry holding the error message, a raising secrets call gives
\* has_secrets and such an entry, and the secrets detector is called after
\* the PII detector, also when that one raised.
C9_DetectorErrorsContained ==
    \A w \in Workers :
       Validated(w) =>
          /\ resp[w].code = 200
          /\ DOMAIN resp[w].body = {"has_pii", "has_secrets", "sanitized", "detections"}
          /\ req[w].pii.kind = "raise" =>
                /\ resp[w].body.has_pii
                /\ \E k \in DOMAIN resp[w].body.detections :
                      /\ Contains(resp[w].body.detections[k], req[w].pii.error)
                      /\ SubSeq(resp[w].body.detections[k], 1, Len(PiiErrorPrefix))
                            = PiiErrorPrefix
          /\ req[w].secrets.kind = "raise" =>
                /\ resp[w].body.has_secrets
                /\ \E k \in DOMAIN resp[w].body.detections :
                      /\ Contains(resp[w].body.detections[k], req[w].secrets.error)
                      /\ SubSeq(resp[w].body.detections[k], 1, Len(SecretsErrorPrefix))
                            = SecretsErrorPrefix
          /\ Len(calls[w]) = 2
          /\ calls[w][1].guard = "pii" /\ calls[w][2].guard = "secrets"

\* C9 witness: both detector calls raised and the response is complete.
C9_Witness ==
    /\ Validated(1)
    /\ req[1].pii.kind = "raise" /\ req[1].secrets.kind = "raise"
    /\ resp[1].code = 200
    /\ resp[1].body.has_pii /\ resp[1].body.has_secrets
    /\ Len(resp[1].body.detections) = 2
    /\ calls[1][2] = [guard |-> "secrets", text |-> req[1].text]

\* C10: no entry occurs twice in the detections validate_text returns.
C10_DetectionsDeduplicated ==
    \A w \in Workers :
       Validated(w) =>
          \A i, j \in DOMAIN resp[w].body.detections :
             i # j => resp[w].body.detections[i] # resp[w].body.detections[j]

(***************************************************************************)
(* SpecConc: requests of several workers interleaved at their file loads   *)
(* and saves; nothing locks either file.                                   *)
(***************************************************************************)
ConcStatuses == {"approved", "rejected"}

\* Worker w takes the w-th request to arrive, and no other.
Arrives(w) == req[w] = NoReq /\ \A v \in 1..(w - 1) : req[v] # NoReq

ConcNext(w) ==
    \/ \E h \in Hashes :
         /\ Arrives(w)
         /\ Len(eventsFile) < MaxEvents
         /\ CreateLoad(w, Payload(h, NoneText), NoCall, NoCall, Midnight)
    \/ CreateSave(w)
    \/ \E id \in 1..MaxEvents, s \in ConcStatuses :
         /\ Arrives(w)
         /\ UpdateLoad(w, id, s, Midnight)
    \/ UpdateLoadApprovals(w)
    \/ UpdateSaveApprovals(w)
    \/ UpdateSaveEvents(w)

NextConc == \E w \in Workers : ConcNext(w)

SpecConc == Init /\ [][NextConc]_vars

NoDuplicates(lst) == \A i, j \in DOMAIN lst : i # j => lst[i] # lst[j]

\* C3: in every state, under every interleaving of update_event requests,
\* approvals.json holds no hash twice, so list_approvals returns none twice.
C3_ApprovalsNoDuplicates ==
    /\ NoDuplicates(approvalsFile)
    /\ NoDuplicates(list_approvals(approvalsFile).body.hashes)

\* C3 witness: two events share an approved hash that is already stored
\* while another request, which loaded the approvals before that, is about
\* to write its own list with the same hash.
C3_Witness ==
    /\ Len(eventsFile) = 2
    /\ eventsFile[1].content_hash = eventsFile[2].content_hash
    /\ eventsFile[1].status = "approved"
    /\ InList(eventsFile[1].content_hash, approvalsFile)
    /\ \E w \in Workers :
          /\ pc[w] = "update_save_approvals"
          /\ event[w].id = 2
          /\ approvals[w] = <<event[w].content_hash>>

Created(w) == Idle(w) /\ req[w].op = "create_event"

\* C8: a save replaces the whole collection with the saver's list, so of
\* two create_event requests that both returned an event with the same id
\* the stored collection holds an event with that id once only: one of the
\* two acknowledged creations is lost.
C8_LastWriterWins ==
    \A v, w \in Workers :
       (v # w /\ Created(v) /\ Created(w) /\ resp[v].body.id = resp[w].body.id) =>
          Cardinality({i \in DOMAIN eventsFile :
                          eventsFile[i].id = resp[w].body.id}) <= 1

\* C8 witness: two create_event requests have both returned, their events
\* differ and carry the same id, and the file holds only the second one.
C8_Witness ==
    /\ Created(1) /\ Created(2)
    /\ resp[1].code = 200 /\ resp[2].code = 200
    /\ resp[1].body.id = resp[2].body.id
    /\ resp[1].body # resp[2].body
    /\ eventsFile = <<resp[2].body>>


(***************************************************************************)
(* extract_text (lines 164-181)                                            *)
(*                                                                         *)
(* file_data, mime_type and error are text; bytes are numbers 0..255; the  *)
(* extracted text is the sequence of its code points.                      *)
(***************************************************************************)
Base64Alphabet ==
    <<"A", "B", "C", "D", "E", "F", "G", "H", "I", "J", "K", "L", "M",
      "N", "O", "P", "Q", "R", "S", "T", "U", "V", "W", "X", "Y", "Z",
      "a", "b", "c", "d", "e", "f", "g", "h", "i", "j", "k", "l", "m",
      "n", "o", "p", "q", "r", "s", "t", "u", "v", "w", "x", "y", "z",
      "0", "1", "2", "3", "4", "5", "6", "7", "8", "9", "+", "/">>

\* The six bits a character of the alphabet stands for.
Base64Value(c) == (CHOOSE i \in DOMAIN Base64Alphabet : Base64Alphabet[i] = c) - 1

IncorrectPadding == <<"I", "n", "c", "o", "r", "r", "e", "c", "t", " ", "p", "a", "d", "d", "i", "n", "g">>
InvalidLengthPrefix == <<"I", "n", "v", "a", "l", "i", "d", " ", "b", "a", "s", "e", "6", "4", "-", "e", "n", "c", "o", "d", "e", "d", " ", "s", "t", "r", "i", "n", "g", ":", " ", "n", "u", "m", "b", "e", "r", " ", "o", "f", " ", "d", "a", "t", "a", " ", "c", "h", "a", "r", "a", "c", "t", "e", "r", "s", " ", "(">>
InvalidLengthSuffix == <<")", " ", "c", "a", "n", "n", "o", "t", " ", "b", "e", " ", "1", " ", "m", "o", "r", "e", " ", "t", "h", "a", "n", " ", "a", " ", "m", "u", "l", "t", "i", "p", "l", "e", " ", "o", "f", " ", "4">>
OnlyAscii == <<"s", "t", "r", "i", "n", "g", " ", "a", "r", "g", "u", "m", "e", "n", "t", " ", "s", "h", "o", "u", "l", "d", " ", "c", "o", "n", "t", "a", "i", "n", " ", "o", "n", "l", "y", " ", "A", "S", "C", "I", "I", " ", "c", "h", "a", "r", "a", "c", "t", "e", "r", "s">>
\* A character outside ASCII, as a str payload may hold.
EAcute == "e-acute"

Decoded(bytes) == [bytes |-> bytes, error |-> <<>>, ok |-> TRUE]
DecodeError(msg) == [bytes |-> <<>>, error |-> msg, ok |-> FALSE]

\* binascii.a2b_base64 without strict mode, from position i: quad is the
\* place in the current group of four, left the bits not yet output, pads
\* the "=" seen in a row, n the data characters read.  Characters outside
\* the alphabet are skipped; a completed padding ends the input; leftover
\* data characters at the end are an error.
RECURSIVE A2bBase64(_, _, _, _, _, _, _)
A2bBase64(s, i, quad, left, pads, n, out) ==
    IF i > Len(s) THEN
        IF quad = 0 THEN Decoded(out)
        ELSE IF quad = 1
             THEN DecodeError(InvalidLengthPrefix \o <<Digit(n)>> \o InvalidLengthSuffix)
             ELSE DecodeError(IncorrectPadding)
    ELSE IF s[i] = "=" THEN
        IF quad >= 2 /\ quad + pads + 1 >= 4 THEN Decoded(out)
        ELSE A2bBase64(s, i + 1, quad, left, IF quad >= 2 THEN pads + 1 ELSE pads, n, out)
    ELSE IF ~InList(s[i], Base64Alphabet) THEN
        A2bBase64(s, i + 1, quad, left, pads, n, out)
    ELSE LET v == Base64Value(s[i]) IN
         CASE quad = 0 -> A2bBase64(s, i + 1, 1, v, 0, n + 1, out)
           [] quad = 1 -> A2bBase64(s, i + 1, 2, v % 16, 0, n + 1,
                                    Append(out, left * 4 + v \div 16))
           [] quad = 2 -> A2bBase64(s, i + 1, 3, v % 4, 0, n + 1,
                                    Append(out, left * 16 + v \div 4))
           [] quad = 3 -> A2bBase64(s, i + 1, 0, 0, 0, n + 1,
                                    Append(out, left * 64 + v))

\* base64.b64decode(file_data): a str must be ASCII, then a2b_base64.
b64decode(s) ==
    IF InList(EAcute, s) THEN DecodeError(OnlyAscii)
    ELSE A2bBase64(s, 1, 0, 0, 0, 0, <<>>)

\* A continuation byte, and the range the second byte of a sequence led by
\* c must lie in (UTF-8 admits no overlong forms, no surrogates, nothing
\* above U+10FFFF).
Continuation(b) == b >= 128 /\ b <= 191
SecondLow(c) == IF c = 224 THEN 160 ELSE IF c = 240 THEN 144 ELSE 128
SecondHigh(c) == IF c = 237 THEN 159 ELSE IF c = 244 THEN 143 ELSE 191

\* What the error handler puts for one undecodable run of bytes.
Handled(errors) == IF errors = "replace" THEN <<65533>> ELSE <<>>

\* bytes.decode("utf-8", errors=errors) from position i, errors being
\* "ignore" or "replace": a run that cannot start or continue a character
\* goes to the handler, and decoding resumes at the byte that broke it.
RECURSIVE Utf8From(_, _, _)
Utf8From(b, i, errors) ==
    IF i > Len(b) THEN <<>>
    ELSE LET c == b[i]
             width == IF c < 128 THEN 1
                      ELSE IF c >= 194 /\ c <= 223 THEN 2
                      ELSE IF c >= 224 /\ c <= 239 THEN 3
                      ELSE IF c >= 240 /\ c <= 244 THEN 4
                      ELSE 0
             second == i + 1 <= Len(b) /\ b[i + 1] >= SecondLow(c)
                                       /\ b[i + 1] <= SecondHigh(c)
             third == i + 2 <= Len(b) /\ Continuation(b[i + 2])
             fourth == i + 3 <= Len(b) /\ Continuation(b[i + 3])
         IN
         IF width = 1 THEN <<c>> \o Utf8From(b, i + 1, errors)
         ELSE IF width = 0 \/ ~second THEN Handled(errors) \o Utf8From(b, i + 1, errors)
         ELSE IF width = 2
              THEN <<(c - 192) * 64 + (b[i + 1] - 128)>> \o Utf8From(b, i + 2, errors)
         ELSE IF ~third THEN Handled(errors) \o Utf8From(b, i + 2, errors)
         ELSE IF width = 3
              THEN <<(c - 224) * 4096 + (b[i + 1] - 128) * 64 + (b[i + 2] - 128)>>
                   \o Utf8From(b, i + 3, errors)
         ELSE IF ~fourth THEN Handled(errors) \o Utf8From(b, i + 3, errors)
         ELSE <<(c - 240) * 262144 + (b[i + 1] - 128) * 4096
                   + (b[i + 2] - 128) * 64 + (b[i + 3] - 128)>>
              \o Utf8From(b, i + 4, errors)

\* Mutant: undecodable bytes are replaced, not dropped.
DecodeErrorsReplace == "replace"

\* Line 176: the errors argument of the call.
DecodeErrors == "ignore"

\* file_bytes.decode("utf-8", errors="ignore")
decode_utf8(bytes) == Utf8From(bytes, 1, DecodeErrors)

\* pdfplumber on the bytes: it raises, or gives pages whose extract_text()
\* is a text or None.
NonePage == <<-1>>
PdfError == <<"N", "o", " ", "/", "R", "o", "o", "t", " ", "o", "b", "j", "e", "c", "t", "!", " ", "-", " ", "I", "s", " ", "t", "h", "i", "s", " ", "r", "e", "a", "l", "l", "y", " ", "a", " ", "P", "D", "F", "?">>
PdfRaises == [error |-> PdfError, ok |-> FALSE, pages |-> <<>>]
PdfPages(pages) == [error |-> <<>>, ok |-> TRUE, pages |-> pages]
NoPdf == [error |-> <<>>, ok |-> FALSE, pages |-> <<>>]

\* str.strip(): whitespace code points off both ends.
Whitespace == {9, 10, 11, 12, 13, 32}
RECURSIVE Strip(_)
Strip(t) ==
    IF t = <<>> THEN <<>>
    ELSE IF Head(t) \in Whitespace THEN Strip(Tail(t))
    ELSE IF t[Len(t)] \in Whitespace THEN Strip(SubSeq(t, 1, Len(t) - 1))
    ELSE t

\* "\n".join(page.extract_text() or "" for page in pdf.pages)
RECURSIVE JoinPages(_)
JoinPages(pages) ==
    IF pages = <<>> THEN <<>>
    ELSE LET first == IF Head(pages) = NonePage THEN <<>> ELSE Head(pages) IN
         IF Len(pages) = 1 THEN first
         ELSE first \o <<10>> \o JoinPages(Tail(pages))

ApplicationPdf == <<"a", "p", "p", "l", "i", "c", "a", "t", "i", "o", "n", "/", "p", "d", "f">>
ApplicationJson == <<"a", "p", "p", "l", "i", "c", "a", "t", "i", "o", "n", "/", "j", "s", "o", "n">>
TextSlash == <<"t", "e", "x", "t", "/">>
UnsupportedPrefix == <<"U", "n", "s", "u", "p", "p", "o", "r", "t", "e", "d", ":", " ">>

StartsWith(s, prefix) == Len(s) >= Len(prefix) /\ SubSeq(s, 1, Len(prefix)) = prefix

\* Mutant: the prefix is tested without its slash.
IsTextualLoose(mime) ==
    StartsWith(mime, SubSeq(TextSlash, 1, 4)) \/ mime = ApplicationJson

\* Line 175.
IsTextual(mime) == StartsWith(mime, TextSlash) \/ mime = ApplicationJson

ExtractTextResponse(text, success, error) ==
    Ok([error |-> error, success |-> success, text |-> text])

\* Lines 167-181, given what pdfplumber does with the bytes.
extract_text(file_data, mime, pdf) ==
    LET file == b64decode(file_data) IN
    IF ~file.ok THEN ExtractTextResponse(<<>>, FALSE, file.error)
    ELSE IF mime = ApplicationPdf THEN
        IF pdf.ok THEN ExtractTextResponse(Strip(JoinPages(pdf.pages)), TRUE, NoneText)
        ELSE ExtractTextResponse(<<>>, FALSE, pdf.error)
    ELSE IF IsTextual(mime)
         THEN ExtractTextResponse(decode_utf8(file.bytes), TRUE, NoneText)
    ELSE ExtractTextResponse(<<>>, FALSE, UnsupportedPrefix \o mime)

ExtractText(w, file_data, filename, mime, pdf) ==
    Answer(w, [file_data |-> file_data, filename |-> filename,
               mime_type |-> mime, op |-> "extract_text", pdf |-> pdf],
           extract_text(file_data, mime, pdf), <<>>)

(***************************************************************************)
(* SpecExtract: extract_text on payloads that are and are not base64, of   *)
(* bytes that are and are not UTF-8, under every MIME type of interest.    *)
(***************************************************************************)
Payloads ==
    {<<>>,
     <<"Y", "W", "I", "=">>,      \* "ab"
     <<"Y", "f", "9", "i">>,      \* 61 FF 62
     <<"w", "6", "k", "=">>,      \* C3 A9
     <<"Y", "e", "K", "C">>,      \* 61 E2 82: a character cut short
     <<"4", "o", "K", "s">>,      \* E2 82 AC
     <<"Y", " ", "W", "-", "I", "=">>, \* characters outside the alphabet
     <<"Y", "Q">>,           \* padding missing
     <<"Y", "W", "I", "=", "Y">>,         \* one data character too many
     <<"Y", "W", EAcute, "=">>}

MimeTypes ==
    {ApplicationPdf, ApplicationJson, TextSlash \o <<"p", "l", "a", "i", "n">>, TextSlash,
     <<"i", "m", "a", "g", "e", "/", "p", "n", "g">>, <<"t", "e", "x", "t">>, <<"t", "e", "x", "t", "i", "l", "e">>}

\* What pdfplumber may do with bytes handed to it as a PDF.
PdfOutcomes ==
    {PdfRaises, PdfPages(<<>>), PdfPages(<<NonePage>>),
     PdfPages(<<<<32, 97>>, NonePage, <<98, 10>>>>)}

PdfRuns(file_data, mime) ==
    IF b64decode(file_data).ok /\ mime = ApplicationPdf THEN PdfOutcomes ELSE {NoPdf}

Filenames == {"a.txt", "b.pdf"}

ExtractNext(w) ==
    \E file_data \in Payloads, filename \in Filenames, mime \in MimeTypes :
      \E pdf \in PdfRuns(file_data, mime) :
        ExtractText(w, file_data, filename, mime, pdf)

SpecExtract == Init /\ [][ExtractNext(1)]_vars


Extracted(w) == Idle(w) /\ req[w].op = "extract_text"

\* A MIME type that is neither PDF, nor text/..., nor JSON.
Unsupported(mime) ==
    /\ mime # ApplicationPdf
    /\ ~StartsWith(mime, TextSlash)
    /\ mime # ApplicationJson

\* C11 (as amended): extract_text never raises, it always answers with a
\* response, and a failure carries an empty text and an error message.  For
\* an unsupported MIME type the answer is a failure with empty text; its
\* error names the MIME type when the payload decodes as base64, and is the
\* decoder's own message when it does not.
C11_UnsupportedMimeFails ==
    \A w \in Workers : Extracted(w) =>
        LET body == resp[w].body
            file == b64decode(req[w].file_data) IN
        /\ resp[w].code = 200
        /\ ~body.success => body.text = <<>> /\ body.error # NoneText
        /\ Unsupported(req[w].mime_type) =>
              /\ ~body.success
              /\ body.text = <<>>
              /\ file.ok => body.error = UnsupportedPrefix \o req[w].mime_type
              /\ ~file.ok => body.error = file.error

\* A MIME type that begins with "text" but not with "text/" was refused by
\* name.
C11_Witness ==
    \E w \in Workers :
        /\ Extracted(w)
        /\ Unsupported(req[w].mime_type)
        /\ ~resp[w].body.success
        /\ Contains(resp[w].body.error, req[w].mime_type)
        /\ StartsWith(req[w].mime_type, SubSeq(TextSlash, 1, 4))

\* C11 (as stated): for an unsupported MIME type the error names the MIME
\* type whatever the payload, base64 or not.
C11_ErrorAlwaysNamesMime ==
    \A w \in Workers :
        Extracted(w) /\ Unsupported(req[w].mime_type) =>
            /\ ~resp[w].body.success
            /\ resp[w].body.text = <<>>
            /\ Contains(resp[w].body.error, req[w].mime_type)


(***************************************************************************)
(* Claims checked under Spec: the two writes of an approving update        *)
(***************************************************************************)
\* The stored event a request in progress is about.
Stored(w) == eventsFile[FirstIndex(eventsFile, req[w].id)]

\* C12 (as amended): an approving update of an event whose hash is new
\* makes two separate writes, the approval set first and the events
\* collection second: the first write adds the hash and leaves every stored
\* event as it was, still with its previous status; the second stores the
\* new status and leaves the approval set alone.
C12_ApprovalsWrittenFirst ==
    [][\A w \in Workers :
         /\ (pc[w] = "update_save_approvals" /\ pc'[w] # pc[w]) =>
               /\ ~InList(event[w].content_hash, approvalsFile)
               /\ InList(event[w].content_hash, approvalsFile')
               /\ eventsFile' = eventsFile
               /\ Stored(w).status # req[w].status
               /\ pc'[w] = "update_save_events"
         /\ (pc[w] = "update_save_events" /\ pc'[w] # pc[w]) =>
               /\ approvalsFile' = approvalsFile
               /\ Stored(w)'.status = req[w].status
               /\ pc'[w] = "idle"
      ]_vars

\* Between the two writes: the hash is in the approval set, put there by
\* this request, and the stored event is still rejected.
C12_Witness ==
    \E w \in Workers :
        /\ pc[w] = "update_save_events"
        /\ req[w].status = "approved"
        /\ InList(event[w].content_hash, approvalsFile)
        /\ event[w].content_hash \notin approvedLog
        /\ Stored(w).status = "rejected"

\* C12 (as stated): the events collection is written before the approval
\* set, so while an approving update is in progress its hash is never in
\* the approval set unless the stored event already carries the new status.
C12_NoHashBeforeStatus ==
    \A w \in Workers :
        (/\ pc[w] \in {"update_load_approvals", "update_save_approvals",
                       "update_save_events"}
         /\ req[w].status = "approved"
         /\ event[w].content_hash \notin approvedLog
         /\ InList(event[w].content_hash, approvalsFile))
        => Stored(w).status = "approved"


(***************************************************************************)
(* Claims checked under SpecCreate: a detector that raises                 *)
(***************************************************************************)
\* The tags the PII step of a request read out of the detector's output.
PiiTags(w) ==
    UNION {Range(categories) : categories \in
             extract_pii_categories(OrText(req[w].pii.validated_output, <<>>))}

\* C13 (as amended): a detector that raises during create_event never
\* blocks the creation: the event is stored with status "pending" and
\* returned.  guardrails_detections is empty when the PII call raised (the
\* secrets call is then not made); when only the secrets call raised it
\* holds what the PII call gave before: nothing if it passed, and its
\* categories, or "PII" for want of any, if it failed.
C13_DetectorFailureKeepsEarlier ==
    \A w \in Workers :
        (Created(w) /\ "raise" \in {req[w].pii.kind, req[w].secrets.kind}) =>
            LET found == resp[w].body.guardrails_detections IN
            /\ resp[w].code = 200
            /\ resp[w].body.status = "pending"
            /\ InList(resp[w].body, eventsFile)
            /\ req[w].pii.kind = "raise" =>
                  found = <<>> /\ \A c \in Range(calls[w]) : c.guard = "pii"
            /\ req[w].pii.kind = "pass" => found = <<>>
            /\ req[w].pii.kind = "fail" =>
                  /\ found # <<>>
                  /\ Range(found) = IF PiiTags(w) = {} THEN {PII} ELSE PiiTags(w)

\* The PII call found an e-mail address, the secrets call raised, and the
\* stored, pending event carries the e-mail category.
C13_Witness ==
    \E w \in Workers :
        /\ Created(w)
        /\ req[w].pii.kind = "fail"
        /\ req[w].secrets.kind = "raise"
        /\ resp[w].body.guardrails_detections = <<EMAIL_ADDRESS>>
        /\ resp[w].body.status = "pending"
        /\ InList(resp[w].body, eventsFile)

\* C13 (as stated): whenever either detector call raises, whatever the
\* other returned, guardrails_detections is empty.
C13_ErrorsMeanNoDetections ==
    \A w \in Workers :
        (Created(w) /\ "raise" \in {req[w].pii.kind, req[w].secrets.kind}) =>
            /\ resp[w].code = 200
            /\ resp[w].body.status = "pending"
            /\ resp[w].body.guardrails_detections = <<>>


(***************************************************************************)
(* Claims checked under SpecCreate: create_event against validate_text     *)
(***************************************************************************)
\* A request whose message went to both detectors and neither raised.
Scanned(w) ==
    /\ Created(w)
    /\ TruthyText(req[w].data.message)
    /\ req[w].pii.kind # "raise"
    /\ req[w].secrets.kind # "raise"

\* The text validate_text hands to the secrets detector when the PII
\* detector answers the message as it answered this request.
SanitizedByPii(w) ==
    (CHOOSE st \in ValidatePii(ValidateStart(req[w].data.message),
                               req[w].data.message, req[w].pii) : TRUE).sanitized

\* What the secrets detector of this request may answer, without raising,
\* to the text validate_text hands it: what it answered before when the
\* text is the message again, anything when it is another text.
SecretsOnSanitized(w) ==
    IF SanitizedByPii(w) = req[w].data.message THEN {req[w].secrets}
    ELSE {out \in secrets_guard_validate(SanitizedByPii(w)) : out.kind # "raise"}

\* The detections validate_text returns for the message of this request
\* when the secrets detector answers out.
ValidateDetections(w, out) ==
    {ValidateSecrets(st, out).detections :
        st \in ValidatePii(ValidateStart(req[w].data.message),
                           req[w].data.message, req[w].pii)}

\* C14 (as amended): create_event runs its own copy of the detection on
\* the message, with the secrets detector on the message itself and the
\* categories read from the PII output alone.  When no detector raises its
\* guardrails_detections equals the detections of validate_text for the
\* same text if the secrets detector gives the sanitized text the verdict
\* it gave the message, and the PII detector passed, or gave a non-empty
\* output, or gave none for a message without a <TAG> token.
C14_SameDetectionsWhenVerdictsAgree ==
    \A w \in Workers : Scanned(w) =>
        \A out \in SecretsOnSanitized(w) :
            (/\ (out.kind = "fail") = (req[w].secrets.kind = "fail")
             /\ \/ req[w].pii.kind = "pass"
                \/ TruthyText(req[w].pii.validated_output)
                \/ extract_pii_categories(req[w].data.message) = {<<>>})
            => resp[w].body.guardrails_detections \in ValidateDetections(w, out)

\* The PII detector redacted the message, the secrets detector found a
\* secret in the message, and the event carries what validate_text returns
\* when the secrets detector finds one in the sanitized text too.
C14_Witness ==
    \E w \in Workers :
        /\ Scanned(w)
        /\ req[w].pii.kind = "fail"
        /\ SanitizedByPii(w) # req[w].data.message
        /\ req[w].secrets.kind = "fail"
        /\ \E out \in SecretsOnSanitized(w) :
             /\ out.kind = "fail"
             /\ resp[w].body.guardrails_detections \in ValidateDetections(w, out)
             /\ Len(resp[w].body.guardrails_detections) >= 2

\* C14 (as stated): when no detector raises, guardrails_detections equals
\* the detections validate_text returns for the same text under the same
\* detector behaviour.
C14_SameDetectionsAsValidate ==
    \A w \in Workers : Scanned(w) =>
        \A out \in SecretsOnSanitized(w) :
            resp[w].body.guardrails_detections \in ValidateDetections(w, out)


(***************************************************************************)
(* Claims checked under Spec: status transitions                           *)
(***************************************************************************)
Updating(w) ==
    pc[w] \in {"update_load_approvals", "update_save_approvals", "update_save_events"}

\* C15: no status transition is blocked.  update_event(id, s) on a stored
\* id is answered "not found" for no current status and no s, and when it
\* returns the stored event has status s, which is the status returned.
C15_NoTransitionBlocked ==
    [][\A w \in Workers :
         /\ (Idle(w) /\ Returns(w) /\ req'[w].op = "update_event") =>
               /\ ~HasId(eventsFile, req'[w].id)
               /\ resp'[w] = NotFound
         /\ (Idle(w) /\ req'[w].op = "update_event"
                     /\ HasId(eventsFile, req'[w].id)) => Updating(w)'
         /\ (Updating(w) /\ Idle(w)') =>
               /\ resp'[w].code = 200
               /\ resp'[w].body.status = req[w].status
               /\ Stored(w)'.status = req[w].status
      ]_vars

\* An event that was approved is pending again, by an update that has just
\* returned.
C15_Witness ==
    \E w \in Workers :
        /\ Idle(w)
        /\ req[w].op = "update_event"
        /\ req[w].status = "pending"
        /\ resp[w].code = 200
        /\ resp[w].body.content_hash \in approvedLog
        /\ Stored(w).status = "pending"


(***************************************************************************)
(* Claims checked under SpecValidate: the sanitized text                   *)
(***************************************************************************)
\* The detector reported a failed validation, without raising, and gave a
\* redacted text; a failure that comes without an output redacts nothing.
Redacted(out) == out.kind = "fail" /\ TruthyText(out.validated_output)

\* C16: the sanitized text validate_text returns is the redacted output of
\* the last detector that reported a failed validation without raising;
\* it is the original text when neither detector redacted, in particular
\* when both raise.
C16_SanitizedIsLastRedaction ==
    \A w \in Workers : Validated(w) =>
        resp[w].body.sanitized =
            IF Redacted(req[w].secrets) THEN req[w].secrets.validated_output
            ELSE IF Redacted(req[w].pii) THEN req[w].pii.validated_output
            ELSE req[w].text

\* Both detectors redacted, and the sanitized text is that of the secrets
\* detector, which is neither the original nor the PII detector's.
C16_Witness ==
    \E w \in Workers :
        /\ Validated(w)
        /\ Redacted(req[w].pii) /\ Redacted(req[w].secrets)
        /\ resp[w].body.sanitized = req[w].secrets.validated_output
        /\ resp[w].body.sanitized # req[w].pii.validated_output
        /\ resp[w].body.sanitized # req[w].text


(***************************************************************************)
(* Claims checked under SpecConc: a lost approval                          *)
(***************************************************************************)
\* C17: with requests in progress at the same time an approval can be
\* lost.  Every write of the approval set replaces the whole file by the
\* list its writer loaded earlier plus the writer's hash, whatever the file
\* holds by then, so a hash another request stored in between is dropped;
\* the witness is a state with every request completed where a stored
\* event is approved and its hash is not in the approval set.
C17_ApprovalsOverwrittenWholesale ==
    [][approvalsFile' # approvalsFile =>
         \E w \in Workers :
             /\ pc[w] = "update_save_approvals"
             /\ pc'[w] = "update_save_events"
             /\ approvalsFile' = approvals[w]
             /\ \A h \in Hashes :
                   (InList(h, approvalsFile) /\ ~InList(h, approvals[w]))
                      => ~InList(h, approvalsFile')
      ]_vars

\* Every request has completed, a stored event is approved with a hash,
\* the approval was answered with success, and the hash is not in the
\* approval set.
C17_Witness ==
    /\ \A w \in Workers : Idle(w) /\ req[w] # NoReq
    /\ \E i \in DOMAIN eventsFile :
          /\ eventsFile[i].status = "approved"
          /\ Truthy(eventsFile[i].content_hash)
          /\ eventsFile[i].content_hash \in approvedLog
          /\ ~InList(eventsFile[i].content_hash, approvalsFile)


(***************************************************************************)
(* Claims checked under Spec: what an update leaves alone                  *)
(***************************************************************************)
\* C18: an update_event that succeeds changes the status and the
\* updated_at of the event with that id and nothing else: the other fields
\* of that event, every other stored event, and the number and order of
\* the events stay.  updated_at is set by update_event alone: an event gets
\* it only in the write of an update of its id, so an event created and
\* never updated has none.
C18_UpdateTouchesStatusOnly ==
    [][/\ \A w \in Workers : (pc[w] = "update_save_events" /\ Idle(w)') =>
             LET i == FirstIndex(eventsFile, req[w].id) IN
             /\ Len(eventsFile') = Len(eventsFile)
             /\ \A k \in DOMAIN eventsFile : k # i => eventsFile'[k] = eventsFile[k]
             /\ DOMAIN eventsFile'[i] = DOMAIN eventsFile[i] \cup {"updated_at"}
             /\ \A f \in DOMAIN eventsFile[i] \ {"status", "updated_at"} :
                   eventsFile'[i][f] = eventsFile[i][f]
       /\ \A k \in DOMAIN eventsFile' :
             (/\ "updated_at" \in DOMAIN eventsFile'[k]
              /\ k \in DOMAIN eventsFile => "updated_at" \notin DOMAIN eventsFile[k])
             => \E w \in Workers :
                   /\ pc[w] = "update_save_events" /\ Idle(w)'
                   /\ eventsFile'[k].id = req[w].id
      ]_vars

\* An update has just returned; the event it was about has updated_at and
\* its hash, the other event, never updated, has no updated_at.
C18_Witness ==
    \E w \in Workers :
        /\ Idle(w)
        /\ req[w].op = "update_event"
        /\ resp[w].code = 200
        /\ Len(eventsFile) = 2
        /\ "updated_at" \in DOMAIN Stored(w)
        /\ Stored(w).content_hash = resp[w].body.content_hash
        /\ \E k \in DOMAIN eventsFile :
              /\ eventsFile[k].id # req[w].id
              /\ "updated_at" \notin DOMAIN eventsFile[k]
              /\ eventsFile[k].status = "pending"


(***************************************************************************)
(* Claims checked under SpecExtract: text/... and JSON payloads            *)
(***************************************************************************)
\* A text/... or JSON request whose payload decodes as base64.
TextualDecoded(w) ==
    /\ Extracted(w)
    /\ StartsWith(req[w].mime_type, TextSlash) \/ req[w].mime_type = ApplicationJson
    /\ b64decode(req[w].file_data).ok

\* U+FFFD, what the "replace" handler substitutes.
ReplacementCharacter == Handled("replace")[1]

\* The bytes hold a run that is not UTF-8.
InvalidUtf8(bytes) == InList(ReplacementCharacter, Utf8From(bytes, 1, "replace"))

NotReplacement(c) == c # ReplacementCharacter

\* C19 (as amended): for a text/... or JSON MIME type extract_text succeeds
\* on every payload that is valid base64, and the text it returns is the
\* UTF-8 decoding of the bytes with each invalid byte sequence dropped:
\* what the decoding that substitutes the replacement character gives, less
\* the replacement characters.
C19_InvalidBytesDropped ==
    \A w \in Workers : TextualDecoded(w) =>
        LET bytes == b64decode(req[w].file_data).bytes IN
        /\ resp[w].code = 200
        /\ resp[w].body.success
        /\ resp[w].body.error = NoneText
        /\ resp[w].body.text =
              SelectSeq(Utf8From(bytes, 1, "replace"), NotReplacement)

\* The bytes 61 FF 62 came back as "ab".
C19_Witness ==
    \E w \in Workers :
        /\ TextualDecoded(w)
        /\ InvalidUtf8(b64decode(req[w].file_data).bytes)
        /\ resp[w].body.success
        /\ resp[w].body.text = <<97, 98>>

\* C19 (as stated): the text returned has the replacement character in the
\* place of each invalid byte sequence.
C19_InvalidBytesReplaced ==
    \A w \in Workers : TextualDecoded(w) =>
        /\ resp[w].body.success
        /\ resp[w].body.text =
              Utf8From(b64decode(req[w].file_data).bytes, 1, "replace")


(***************************************************************************)
(* Claims checked under Spec: stored statuses against the approval set     *)
(***************************************************************************)
\* C20: with one request at a time, every stored event that is approved
\* and has a non-empty content_hash has that hash in the approval set, and
\* every hash in the approval set is the content_hash of a stored event
\* that an update_event set to "approved" before: one that has returned,
\* or the one in progress between its two writes.  create_event adds
\* nothing to the approval set and creates every event pending.
C20_ApprovedMatchesApprovalSet ==
    /\ \A i \in DOMAIN eventsFile :
          (eventsFile[i].status = "approved" /\ Truthy(eventsFile[i].content_hash))
             => InList(eventsFile[i].content_hash, approvalsFile)
    /\ \A k \in DOMAIN approvalsFile :
          /\ Truthy(approvalsFile[k])
          /\ \E i \in DOMAIN eventsFile : eventsFile[i].content_hash = approvalsFile[k]
          /\ \/ /\ approvalsFile[k] \in approvedLog
                /\ \E i \in DOMAIN eventsFile :
                      /\ eventsFile[i].content_hash = approvalsFile[k]
                      /\ "updated_at" \in DOMAIN eventsFile[i]
             \/ \E w \in Workers :
                   /\ pc[w] = "update_save_events"
                   /\ req[w].status = "approved"
                   /\ event[w].content_hash = approvalsFile[k]
                   /\ Stored(w).content_hash = approvalsFile[k]
    /\ \A w \in Workers :
          /\ pc[w] = "create_save" => event[w].status = "pending"
          /\ Created(w) => resp[w].body.status = "pending"

\* No request is in progress; one stored event is approved with its hash in
\* the approval set, and the approval set also holds the hash of an event
\* that was approved once and is rejected now.
C20_Witness ==
    /\ \A w \in Workers : Idle(w)
    /\ Len(approvalsFile) = 2
    /\ \E i, j \in DOMAIN eventsFile :
          /\ eventsFile[i].status = "approved"
          /\ InList(eventsFile[i].content_hash, approvalsFile)
          /\ eventsFile[j].status = "rejected"
          /\ InList(eventsFile[j].content_hash, approvalsFile)

====
